---------------------------- MODULE Spec2Model ----------------------------
(***************************************************************************)
(* A model of vanswap_ofx.py: the OFX repairer (split_input, repair,       *)
(* write), the file manager (FilterInOutFiles) and the per-file loop of    *)
(* main.                                                                   *)
(*                                                                         *)
(* Text is a sequence of one-character strings, so that the two regular    *)
(* expressions of the program, RE_OFX and RE_STMTTRN, are modelled by what *)
(* Python's backtracking matcher does with them, character by character.   *)
(***************************************************************************)
EXTENDS Integers, Sequences, FiniteSets, TLC

(***************************************************************************)
(* Characters and the character classes the regular expressions use.       *)
(***************************************************************************)

\* (?i): the letters' lower-case forms.
ToLower ==
    [c \in {"A","B","C","D","E","F","G","H","I","J","K","L","M",
            "N","O","P","Q","R","S","T","U","V","W","X","Y","Z"} |->
       CASE c = "A" -> "a" [] c = "B" -> "b" [] c = "C" -> "c" [] c = "D" -> "d"
         [] c = "E" -> "e" [] c = "F" -> "f" [] c = "G" -> "g" [] c = "H" -> "h"
         [] c = "I" -> "i" [] c = "J" -> "j" [] c = "K" -> "k" [] c = "L" -> "l"
         [] c = "M" -> "m" [] c = "N" -> "n" [] c = "O" -> "o" [] c = "P" -> "p"
         [] c = "Q" -> "q" [] c = "R" -> "r" [] c = "S" -> "s" [] c = "T" -> "t"
         [] c = "U" -> "u" [] c = "V" -> "v" [] c = "W" -> "w" [] c = "X" -> "x"
         [] c = "Y" -> "y" [] c = "Z" -> "z"]

Lower(c) == IF c \in DOMAIN ToLower THEN ToLower[c] ELSE c

\* \s
IsSpace(c) == c \in {" ", "\t", "\n", "\r"}

\* \d
IsDigit(c) == c \in {"0","1","2","3","4","5","6","7","8","9"}

\* The literals of the two patterns, as text.
OFX_OPEN     == <<"<","O","F","X",">">>
OFX_CLOSE    == <<"<","/","O","F","X",">">>
STMTTRN_OPEN == <<"<","S","T","M","T","T","R","N",">">>
STMTTRN_CLOSE == <<"<","/","S","T","M","T","T","R","N",">">>
NAME_TAG     == <<"<","N","A","M","E",">">>
MEMO_TAG     == <<"<","M","E","M","O",">">>
CONFIRMATION == <<"C","o","n","f","i","r","m","a","t","i","o","n">>

\* A literal of a (?i) pattern matches at position i of s.
LitAt(s, i, lit) ==
    /\ i >= 1
    /\ i + Len(lit) - 1 <= Len(s)
    /\ \A k \in 1..Len(lit) : Lower(s[i + k - 1]) = Lower(lit[k])

\* Greedy \s* from position i: the first position that holds no white space.
RECURSIVE SkipSpace(_, _)
SkipSpace(s, i) ==
    IF i <= Len(s) /\ IsSpace(s[i]) THEN SkipSpace(s, i + 1) ELSE i

\* Greedy \d* from position i.
RECURSIVE SkipDigits(_, _)
SkipDigits(s, i) ==
    IF i <= Len(s) /\ IsDigit(s[i]) THEN SkipDigits(s, i + 1) ELSE i

\* .* (no DOTALL) followed by \n: the position of the first line feed at or
\* after i, 0 when the text has none.
RECURSIVE FindNewline(_, _)
FindNewline(s, i) ==
    IF i > Len(s) THEN 0
    ELSE IF s[i] = "\n" THEN i ELSE FindNewline(s, i + 1)

\* s[a..b), empty when b <= a.
Cut(s, a, b) == SubSeq(s, a, b - 1)

(***************************************************************************)
(* OFXRepairer.RE_STMTTRN and OFXRepairer.repair.                          *)
(***************************************************************************)

NoMatch == [matched |-> FALSE]

\* (?P<post>(.*?\n)*?\s*</STMTTRN>) from position r: the position after the
\* match, 0 when there is none. Each round of the lazy (.*?\n)*? takes one
\* whole line, and the fewest lines are tried first; after them the greedy
\* \s* has to stand right before </STMTTRN>.
RECURSIVE MatchPost(_, _)
PostNextLine(s, nl) == IF nl = 0 THEN 0 ELSE MatchPost(s, nl + 1)
PostClose(s, r, q) ==
    IF LitAt(s, q, STMTTRN_CLOSE) THEN q + Len(STMTTRN_CLOSE)
    ELSE PostNextLine(s, FindNewline(s, r))
MatchPost(s, r) == PostClose(s, r, SkipSpace(s, r))

\* \n(?P<post>...) at position k: the position after the match, 0 when
\* there is none.
NewlineThenPost(s, k) ==
    IF k <= Len(s) /\ s[k] = "\n" THEN MatchPost(s, k + 1) ELSE 0

\* No match of the pattern from memo_line on.
NoTail == <<0, 0, 0>>

\* The \s* that ends conf_field is greedy and gives back one character at
\* a time: conf_field, which began at e, ends at the last k in lo..hi that
\* holds a line feed after which post matches.
RECURSIVE ConfEnd(_, _, _, _)
ConfEndAt(s, e, lo, k, end) ==
    IF end # 0 THEN <<e, k, end>> ELSE ConfEnd(s, e, lo, k - 1)
ConfEnd(s, e, lo, k) ==
    IF k < lo THEN NoTail ELSE ConfEndAt(s, e, lo, k, NewlineThenPost(s, k))

\* (\s*Confirmation\s\#\d+\s*) tried at position e, where memo_line ends.
ConfDigits(s, e, d1, d2) ==
    IF d2 > d1 THEN ConfEnd(s, e, d2, SkipSpace(s, d2)) ELSE NoTail
ConfNumber(s, e, c2) ==
    IF c2 + 1 <= Len(s) /\ IsSpace(s[c2]) /\ s[c2 + 1] = "#"
    THEN ConfDigits(s, e, c2 + 2, SkipDigits(s, c2 + 2))
    ELSE NoTail
ConfWord(s, e, c1) ==
    IF LitAt(s, c1, CONFIRMATION)
    THEN ConfNumber(s, e, c1 + Len(CONFIRMATION))
    ELSE NoTail
MatchConf(s, e) == ConfWord(s, e, SkipSpace(s, e))

\* (?P<memo_line>.*?)(?P<conf_field>(...)?)\n(?P<post>...): memo_line is
\* lazy, so its end e moves right one character at a time, never over a
\* line feed; at each e the optional conf_field is tried first and the
\* empty conf_field second. The result is <<end of memo_line, end of
\* conf_field, end of the match>>, NoTail when nothing matches.
RECURSIVE MatchMemoLine(_, _)
MemoLineNoConf(s, e, end) ==
    IF end # 0 THEN <<e, e, end>>
    ELSE IF e <= Len(s) /\ s[e] # "\n" THEN MatchMemoLine(s, e + 1)
    ELSE NoTail
MemoLineConf(s, e, tail) ==
    IF tail # NoTail THEN tail ELSE MemoLineNoConf(s, e, NewlineThenPost(s, e))
MatchMemoLine(s, e) == MemoLineConf(s, e, MatchConf(s, e))

\* The groups of a match that began at i, with pre ending at q, name_line
\* at s[ns..nl), memo_line beginning at ms.
Groups(s, i, q, ns, nl, ms, tail) ==
    IF tail = NoTail THEN NoMatch
    ELSE [matched    |-> TRUE,
          pre        |-> Cut(s, i, q),
          name_tag   |-> Cut(s, q, ns),
          name_line  |-> Cut(s, ns, nl),
          memo_tag   |-> Cut(s, nl + 1, ms),
          memo_line  |-> Cut(s, ms, tail[1]),
          conf_field |-> Cut(s, tail[1], tail[2]),
          post       |-> Cut(s, tail[2] + 1, tail[3]),
          end        |-> tail[3]]

\* (?P<memo_tag>\s*<MEMO>) and what follows it, from the line after the
\* NAME line.
MatchMemoTag(s, i, q, ns, nl, m1) ==
    IF LitAt(s, m1, MEMO_TAG)
    THEN Groups(s, i, q, ns, nl, m1 + Len(MEMO_TAG),
                MatchMemoLine(s, m1 + Len(MEMO_TAG)))
    ELSE NoMatch

\* The pattern with (.*\n)*? between the NAME line and memo_tag: the MEMO
\* tag is looked for on the line after the NAME line, then one line later
\* and so on, whatever lines lie between.
RECURSIVE MemoTagFrom(_, _, _, _, _, _)
MemoTagNextLine(s, i, q, ns, nl, k) ==
    IF k = 0 THEN NoMatch ELSE MemoTagFrom(s, i, q, ns, nl, k + 1)
MemoTagAt(s, i, q, ns, nl, r, m) ==
    IF m.matched THEN m ELSE MemoTagNextLine(s, i, q, ns, nl, FindNewline(s, r))
MemoTagFrom(s, i, q, ns, nl, r) ==
    MemoTagAt(s, i, q, ns, nl, r, MatchMemoTag(s, i, q, ns, nl, SkipSpace(s, r)))
MatchNameLine_anyLinesBetween(s, i, q, ns, nl) ==
    IF nl # 0 THEN MemoTagFrom(s, i, q, ns, nl, nl + 1)
    ELSE NoMatch

\* (?P<name_line>.*?)\n: the rest of the line.
MatchNameLine(s, i, q, ns, nl) ==
    IF nl # 0 THEN MatchMemoTag(s, i, q, ns, nl, SkipSpace(s, nl + 1))
    ELSE NoMatch

\* (?P<name_tag>\s*<NAME>) at q.
MatchNameTag(s, i, q, t1) ==
    IF LitAt(s, t1, NAME_TAG)
    THEN MatchNameLine(s, i, q, t1 + Len(NAME_TAG),
                       FindNewline(s, t1 + Len(NAME_TAG)))
    ELSE NoMatch

\* The pattern from name_tag on, with pre = s[i..q).
MatchFields(s, i, q) == MatchNameTag(s, i, q, SkipSpace(s, q))

\* (.*\n)*? of pre, lazily: the fields are tried at q, then one line later
\* and so on.
RECURSIVE MatchPreLines(_, _, _)
PreNextLine(s, i, nl) == IF nl = 0 THEN NoMatch ELSE MatchPreLines(s, i, nl + 1)
PreLinesAt(s, i, q, m) ==
    IF m.matched THEN m ELSE PreNextLine(s, i, FindNewline(s, q))
MatchPreLines(s, i, q) == PreLinesAt(s, i, q, MatchFields(s, i, q))

\* <STMTTRN>\s*\n of pre: the greedy \s* gives back one character at a time
\* until a line feed follows it; k runs down from hi to lo.
RECURSIVE MatchPreSpace(_, _, _, _)
PreSpaceAt(s, i, lo, k, m) ==
    IF m.matched THEN m ELSE MatchPreSpace(s, i, lo, k - 1)
MatchPreSpace(s, i, lo, k) ==
    IF k < lo THEN NoMatch
    ELSE PreSpaceAt(s, i, lo, k,
                    IF k <= Len(s) /\ s[k] = "\n"
                    THEN MatchPreLines(s, i, k + 1) ELSE NoMatch)

\* RE_STMTTRN matched at position i of s.
RE_STMTTRN(s, i) ==
    IF LitAt(s, i, STMTTRN_OPEN)
    THEN MatchPreSpace(s, i, i + Len(STMTTRN_OPEN),
                       SkipSpace(s, i + Len(STMTTRN_OPEN)))
    ELSE NoMatch

\* repl with g['memo_line'] where g['name_line'] belongs: both lines get the
\* MEMO value.
repl_memoTwice(m) ==
    m.pre
      \o (IF m.name_tag # <<>>
          THEN m.name_tag \o m.memo_line \o <<"\n">> ELSE <<>>)
      \o (IF m.memo_tag # <<>>
          THEN m.memo_tag \o m.memo_line \o m.conf_field \o <<"\n">> ELSE <<>>)
      \o m.post

\* repl without g['conf_field']: the annotation is lost.
repl_dropsConf(m) ==
    m.pre
      \o (IF m.name_tag # <<>>
          THEN m.name_tag \o m.memo_line \o <<"\n">> ELSE <<>>)
      \o (IF m.memo_tag # <<>>
          THEN m.memo_tag \o m.name_line \o <<"\n">> ELSE <<>>)
      \o m.post

\* repair's inner function.
repl(m) ==
    m.pre
      \o (IF m.name_tag # <<>>
          THEN m.name_tag \o m.memo_line \o <<"\n">> ELSE <<>>)
      \o (IF m.memo_tag # <<>>
          THEN m.memo_tag \o m.name_line \o m.conf_field \o <<"\n">> ELSE <<>>)
      \o m.post

\* The least member of a set of positions, 0 when it is empty.
LeastOrZero(S) == IF S = {} THEN 0 ELSE CHOOSE j \in S : \A k \in S : j <= k

\* RE_STMTTRN.search(s, i): the leftmost position at or after i where the
\* pattern matches, 0 when there is none.
search(s, i) == LeastOrZero({j \in i..Len(s) : RE_STMTTRN(s, j).matched})

\* RE_STMTTRN.sub(repl, s) from position i on: the leftmost match is
\* replaced and the scan goes on after it; unmatched text is copied.
RECURSIVE Sub(_, _)
SubMatch(s, i, j, m) == Cut(s, i, j) \o repl(m) \o Sub(s, m.end)
SubAt(s, i, j) ==
    IF j = 0 THEN Cut(s, i, Len(s) + 1)
    ELSE SubMatch(s, i, j, RE_STMTTRN(s, j))
Sub(s, i) == SubAt(s, i, search(s, i))

repair(to_repair) == Sub(to_repair, 1)

(***************************************************************************)
(* OFXRepairer.RE_OFX and OFXRepairer.split_input.                         *)
(***************************************************************************)

\* Python's None; no text is equal to it.
None == <<"None">>

\* RE_OFX.match(s): (?is)([^<]*<OFX>)(.*?)(</OFX>.*) anchored at the start
\* of s. The greedy [^<]* stops at the first "<" of s, at p, where <OFX> has
\* to be; the lazy .*? stops at the first </OFX> after it, at q; the last
\* .* runs to the end of s (DOTALL).
OfxGroups(s, a, q) ==
    IF q = 0 THEN NoMatch
    ELSE [matched |-> TRUE,
          g1 |-> Cut(s, 1, a),
          g2 |-> Cut(s, a, q),
          g3 |-> Cut(s, q, Len(s) + 1)]
OfxOpen(s, p) ==
    IF p # 0 /\ LitAt(s, p, OFX_OPEN)
    THEN OfxGroups(s, p + Len(OFX_OPEN),
                   LeastOrZero({q \in (p + Len(OFX_OPEN))..Len(s) :
                                   LitAt(s, q, OFX_CLOSE)}))
    ELSE NoMatch
\* RE_OFX used with search in place of match: the match may begin after
\* the start of s, and what lies before it is in no group.
RE_OFX_search(s) ==
    LET opens == {p \in 1..Len(s) : LitAt(s, p, OFX_OPEN)}
        p == LeastOrZero(opens)
        q == IF p = 0 THEN 0
             ELSE LeastOrZero({j \in (p + Len(OFX_OPEN))..Len(s) :
                                  LitAt(s, j, OFX_CLOSE)})
        before == {j \in 1..(p - 1) : s[j] = "<"}
        from == IF before = {} THEN 1
                ELSE 1 + CHOOSE j \in before : \A k \in before : k <= j
    IN  IF p = 0 \/ q = 0 THEN NoMatch
        ELSE [matched |-> TRUE,
              g1 |-> Cut(s, from, p + Len(OFX_OPEN)),
              g2 |-> Cut(s, p + Len(OFX_OPEN), q),
              g3 |-> Cut(s, q, Len(s) + 1)]
RE_OFX(s) == OfxOpen(s, LeastOrZero({j \in 1..Len(s) : s[j] = "<"}))

SplitGroups(m_ofx) ==
    IF m_ofx.matched THEN <<m_ofx.g1, m_ofx.g2, m_ofx.g3>>
    ELSE <<None, None, None>>
split_input(s) == SplitGroups(RE_OFX(s))

(***************************************************************************)
(* The texts the operations are applied to. A payload is a sequence of     *)
(* lines, each of one kind; the value a line carries is decided by its     *)
(* position, so that no two lines of a payload carry the same value.       *)
(***************************************************************************)

MaxLines == 7
MaxFields == 4

LineValue == <<"a","b","c","d","e","f","g","h","i","j","k","l">>

\* The lines that mark and fill a record.
StructKinds == {"open", "close", "name", "memo"}
\* The sub-field lines of one record.
FieldKinds == {"name", "memo", "memoc", "other", "lname", "namec", "blank"}

LF == <<"\n">>

\* What comes before the value on a line: leading white space and the tag.
LineHead(kind) ==
    CASE kind = "open"  -> STMTTRN_OPEN
      [] kind = "close" -> STMTTRN_CLOSE
      [] kind = "name"  -> NAME_TAG
      [] kind = "memo"  -> MEMO_TAG
      [] kind = "memoc" -> <<" ">> \o MEMO_TAG
      [] kind = "other" -> <<"<","S","I","C",">">>
      [] kind = "lname" -> <<" ", " ", "<","n","a","m","e",">">>
      [] kind = "namec" -> NAME_TAG
      [] kind = "blank" -> <<" ">>

\* The value of a NAME line, and the body of a MEMO line's value. A NAME
\* value may itself end in the words of a confirmation annotation.
LineBody(kind, k) ==
    CASE kind \in {"open", "close", "blank"} -> <<>>
      [] kind = "lname" -> <<LineValue[k], " ">>
      [] kind = "namec" ->
            <<LineValue[k], " ">> \o CONFIRMATION \o <<" ", "#", "7", "4">>
      [] OTHER -> <<LineValue[k]>>

\* The confirmation annotation that ends a MEMO line's value, with the
\* white space around it.
LineConf(kind) ==
    IF kind = "memoc"
    THEN <<" ">> \o CONFIRMATION \o <<" ", "#", "7", "4", " ">>
    ELSE <<>>

LineText(kind, k) == LineHead(kind) \o LineBody(kind, k) \o LineConf(kind)

\* The lines a..b of a payload, joined by line feeds.
RECURSIVE TextRange(_, _, _)
TextRange(kinds, a, b) ==
    IF a > b THEN <<>>
    ELSE LineText(kinds[a], a)
           \o (IF a < b THEN LF \o TextRange(kinds, a + 1, b) ELSE <<>>)

Text(kinds) == TextRange(kinds, 1, Len(kinds))

SeqsUpTo(S, n) == UNION {[1..m -> S] : m \in 0..n}

\* Any lines at all, record markers included: balanced or not.
StructPayloads == SeqsUpTo(StructKinds, MaxLines)
\* One well-formed record with any sub-field lines.
RecordPayloads ==
    {<<"open">> \o f \o <<"close">> : f \in SeqsUpTo(FieldKinds, MaxFields)}

(***************************************************************************)
(* The texts split_input is applied to: a few pieces, each a marker in     *)
(* some letter case, another tag, a lone "<", a line feed or a letter.     *)
(***************************************************************************)

MaxPieces == 4

PieceKinds == {"OPEN", "open", "CLOSE", "close", "tag", "lt", "nl", "x"}

PieceText(kind) ==
    CASE kind = "OPEN"  -> OFX_OPEN
      [] kind = "open"  -> <<"<","o","f","x",">">>
      [] kind = "CLOSE" -> OFX_CLOSE
      [] kind = "close" -> <<"<","/","O","f","x",">">>
      [] kind = "tag"   -> <<"<","A",">">>
      [] kind = "lt"    -> <<"<">>
      [] kind = "nl"    -> LF
      [] kind = "x"     -> <<"x">>

RECURSIVE PiecesFrom(_, _)
PiecesFrom(kinds, k) ==
    IF k > Len(kinds) THEN <<>>
    ELSE PieceText(kinds[k]) \o PiecesFrom(kinds, k + 1)

Documents == {PiecesFrom(kinds, 1) : kinds \in SeqsUpTo(PieceKinds, MaxPieces)}

(***************************************************************************)
(* Files. A path is text; a file is the header mapping OfxFile reads from  *)
(* it and its decoded text. The file system maps a path to a file or to    *)
(* NoFile.                                                                 *)
(***************************************************************************)

NoFile == [exists |-> FALSE]

\* What open(path, 'wb') leaves at the path: a file of no bytes.
EmptyFile == [exists |-> TRUE, headers |-> <<>>, text |-> <<>>]

\* os.path.splitext: the path is cut before its last ".".
splitext(path) ==
    LET dots == {j \in 1..Len(path) : path[j] = "."} IN
    IF dots = {} THEN <<path, <<>> >>
    ELSE LET d == CHOOSE j \in dots : \A k \in dots : k <= j IN
         <<Cut(path, 1, d), Cut(path, d, Len(path) + 1)>>

\* str.lower
lower(str) == [k \in 1..Len(str) |-> Lower(str[k])]

\* main: file_manager = FilterInOutFiles('.repaired')
OUTPUT_EXT == <<".","r","e","p","a","i","r","e","d">>

\* FilterInOutFiles.generate_out_path
generate_out_path(path) ==
    IF path = <<>> \/ OUTPUT_EXT = <<>> THEN path
    ELSE splitext(path)[1] \o OUTPUT_EXT \o splitext(path)[2]

\* main: ext.lower() in ['.ofx', '.qfx']
Recognised(path) ==
    lower(splitext(path)[2]) \in {<<".","o","f","x">>, <<".","q","f","x">>}

\* open_in_out_files without its os.path.exists check: open(out_path, 'wb')
\* truncates what is there.
open_in_out_files_unchecked(f, in_path) ==
    IF ~f[in_path].exists
    THEN [errno |-> "ENOENT", fs |-> f]
    ELSE [errno |-> "", fs |-> [f EXCEPT ![generate_out_path(in_path)] = EmptyFile]]

\* FilterInOutFiles.open_in_out_files(in_path) on file system f: the errno
\* of the exception it raises ("" when it returns) and the file system it
\* leaves.
open_in_out_files(f, in_path) ==
    LET out_path == generate_out_path(in_path) IN
    IF ~f[in_path].exists
    THEN [errno |-> "ENOENT", fs |-> f]
    ELSE IF f[out_path].exists
    THEN [errno |-> "EEXIST", fs |-> f]
    ELSE [errno |-> "", fs |-> [f EXCEPT ![out_path] = EmptyFile]]

\* dict.get(key, default)
get(headers, key, default) ==
    IF key \in DOMAIN headers THEN headers[key] ELSE default

\* codec_name_from_ofx_headers without its look at CHARSET: USASCII is
\* always code page 1252.
codec_name_from_ofx_headers_cp1252(headers_) ==
    LET enc == get(headers_, "ENCODING", "") IN
    IF enc = "" THEN <<"ascii">>
    ELSE IF enc = "USASCII" THEN <<"cp", "1252">>
    ELSE IF enc \in {"UNICODE", "UTF-8"} THEN <<"utf-8">>
    ELSE <<"AssertionError">>

\* OFXRepairer.codec_name_from_ofx_headers: the codec name, or the
\* exception it raises.
codec_name_from_ofx_headers(headers) ==
    LET enc == get(headers, "ENCODING", "") IN
    IF enc = "" THEN <<"ascii">>
    ELSE IF enc = "USASCII" THEN <<"cp", get(headers, "CHARSET", "1252")>>
    ELSE IF enc \in {"UNICODE", "UTF-8"} THEN <<"utf-8">>
    ELSE <<"AssertionError">>

\* OFXRepairer(in_file, out_file).write(): the exception that ends it ("" when
\* it returns) and the text it has written to out_file. The codec is
\* looked up in the constructor, the text is split and repaired in write.
WriteParts(sp) ==
    IF sp[1] = None
    THEN [raised |-> "CLIError", written |-> <<>>]
    ELSE [raised |-> "", written |-> sp[1] \o repair(sp[2]) \o sp[3]]
write(in_file) ==
    IF codec_name_from_ofx_headers(in_file.headers) = <<"AssertionError">>
    THEN [raised |-> "AssertionError", written |-> <<>>]
    ELSE WriteParts(split_input(in_file.text))

VARIABLES
    lines,      \* the kinds of the lines of the payload
    to_repair,  \* repair's argument
    repaired,   \* repair's result, None before the call
    text,       \* split_input's argument
    parts,      \* split_input's result, <<>> before the call
    parts2,     \* the result of split_input on the parts put together again
    paths,      \* main: args.paths
    idx,        \* main: the position of inpath in paths
    pc,         \* main: where it stands
    fs,         \* the file system
    report,     \* main: what happened to each path so far
    exit_code,  \* main: the value returned, None while it runs
    headers,    \* codec_name_from_ofx_headers's argument
    codec_name, \* OFXRepairer.codec_name, None before the lookup
    repaired2   \* the result of repair on repaired, None before the call

repairVars == <<lines, to_repair, repaired, repaired2>>
splitVars == <<text, parts, parts2>>
mainVars == <<paths, idx, pc, fs, report, exit_code>>
codecVars == <<headers, codec_name>>
vars == <<lines, to_repair, repaired, repaired2, text, parts, parts2,
          paths, idx, pc, fs, report, exit_code, headers, codec_name>>

NoRepair ==
    lines = <<>> /\ to_repair = <<>> /\ repaired = None /\ repaired2 = None
NoSplit == text = <<>> /\ parts = <<>> /\ parts2 = <<>>
NoMain ==
    /\ paths = <<>> /\ idx = 0 /\ pc = "off" /\ fs = <<>>
    /\ report = <<>> /\ exit_code = None
NoCodec == headers = <<>> /\ codec_name = None

(***************************************************************************)
(* repair applied to a payload.                                            *)
(***************************************************************************)

InitRepair ==
    /\ lines \in StructPayloads \cup RecordPayloads
    /\ to_repair = Text(lines)
    /\ repaired = None
    /\ repaired2 = None
    /\ NoSplit /\ NoMain /\ NoCodec

Repair ==
    /\ pc = "off"
    /\ repaired = None
    /\ repaired' = repair(to_repair)
    /\ UNCHANGED <<lines, to_repair, repaired2, splitVars, mainVars, codecVars>>

\* repair applied to what repair returned.
RepairAgain ==
    /\ pc = "off"
    /\ repaired # None
    /\ repaired2 = None
    /\ repaired2' = repair(repaired)
    /\ UNCHANGED <<lines, to_repair, repaired, splitVars, mainVars, codecVars>>

NextRepair == Repair \/ RepairAgain

SpecRepair == InitRepair /\ [][NextRepair]_vars

(***************************************************************************)
(* What the claims about repair say of a payload, read off its lines.      *)
(***************************************************************************)

IsName(kind) == kind \in {"name", "lname", "namec"}
IsMemo(kind) == kind \in {"memo", "memoc"}
IsMarker(kind) == kind \in {"open", "close"}

NameLines(kinds, a, b) == {k \in a..b : IsName(kinds[k])}
MemoLines(kinds, a, b) == {k \in a..b : IsMemo(kinds[k])}

\* The marker line nearest before line k, 0 when there is none.
MarkerBefore(kinds, k) ==
    LET ms == {j \in 1..(k - 1) : IsMarker(kinds[j])} IN
    IF ms = {} THEN 0 ELSE CHOOSE j \in ms : \A i \in ms : i <= j

\* Record markers come in pairs: an open, then a close, then an open ...
WellNested(kinds) ==
    /\ \A k \in 1..Len(kinds) :
          /\ kinds[k] = "open" =>
                (MarkerBefore(kinds, k) = 0 \/ kinds[MarkerBefore(kinds, k)] = "close")
          /\ kinds[k] = "close" =>
                (MarkerBefore(kinds, k) # 0 /\ kinds[MarkerBefore(kinds, k)] = "open")
    /\ MarkerBefore(kinds, Len(kinds) + 1) # 0 =>
          kinds[MarkerBefore(kinds, Len(kinds) + 1)] = "close"

\* The records: from a record-start marker to the nearest record-end marker
\* after it.
Records(kinds) ==
    {r \in (1..Len(kinds)) \X (1..Len(kinds)) :
        /\ r[1] < r[2]
        /\ kinds[r[1]] = "open"
        /\ kinds[r[2]] = "close"
        /\ \A k \in (r[1] + 1)..(r[2] - 1) : kinds[k] # "close"}

HasBoth(kinds, r) ==
    NameLines(kinds, r[1], r[2]) # {} /\ MemoLines(kinds, r[1], r[2]) # {}

\* The payload is one well-formed record.
OneRecord(kinds) ==
    /\ Len(kinds) >= 2
    /\ kinds[1] = "open"
    /\ kinds[Len(kinds)] = "close"
    /\ \A k \in 2..(Len(kinds) - 1) : ~IsMarker(kinds[k])

\* The payload is records only, one right after the other.
AdjacentRecords(kinds) ==
    /\ Len(kinds) >= 2
    /\ WellNested(kinds)
    /\ kinds[1] = "open"
    /\ \A k \in 1..Len(kinds) :
          ~IsMarker(kinds[k]) => kinds[MarkerBefore(kinds, k)] = "open"

\* Line k of the payload after the exchange of the NAME line n and the MEMO
\* line m: the NAME tag is followed by the body of the MEMO value, the MEMO
\* tag by the NAME value and then the confirmation annotation.
ExchangedLine(kinds, k, n, m) ==
    IF k = n THEN LineHead(kinds[n]) \o LineBody(kinds[m], m)
    ELSE IF k = m
    THEN LineHead(kinds[m]) \o LineBody(kinds[n], n) \o LineConf(kinds[m])
    ELSE LineText(kinds[k], k)

RECURSIVE ExchangedRange(_, _, _, _, _)
ExchangedRange(kinds, a, b, n, m) ==
    IF a > b THEN <<>>
    ELSE ExchangedLine(kinds, a, n, m)
           \o (IF a < b THEN LF \o ExchangedRange(kinds, a + 1, b, n, m) ELSE <<>>)

Exchanged(kinds, n, m) == ExchangedRange(kinds, 1, Len(kinds), n, m)

\* The only member of a set of one.
Only(S) == CHOOSE x \in S : TRUE

\* The lines of a text.
RECURSIVE LinesFrom(_, _)
LinesCut(str, i, nl) ==
    IF nl = 0 THEN <<Cut(str, i, Len(str) + 1)>>
    ELSE <<Cut(str, i, nl)>> \o LinesFrom(str, nl + 1)
LinesFrom(str, i) == LinesCut(str, i, FindNewline(str, i))

SplitLines(str) == LinesFrom(str, 1)

\* The close marker of the record that opens at line a.
RecordEnd(kinds, a) ==
    CHOOSE b \in (a + 1)..Len(kinds) :
       kinds[b] = "close" /\ \A k \in (a + 1)..(b - 1) : kinds[k] # "close"

\* The payload from its record at line a on, each record repaired alone.
RECURSIVE RepairedApart(_, _)
RepairedApart(kinds, a) ==
    IF a > Len(kinds) THEN <<>>
    ELSE repair(TextRange(kinds, a, RecordEnd(kinds, a)))
           \o (IF RecordEnd(kinds, a) < Len(kinds)
               THEN LF \o RepairedApart(kinds, RecordEnd(kinds, a) + 1)
               ELSE <<>>)

\* C5: in a record whose MEMO value ends in a confirmation annotation,
\* repair puts the body of the MEMO value after the NAME tag and the NAME
\* value, then the annotation, after the MEMO tag, wherever the two lines
\* stand in the record.
C5_ConfirmationStaysOnMemoLine ==
    (/\ repaired # None
     /\ OneRecord(lines)
     /\ Cardinality(NameLines(lines, 1, Len(lines))) = 1
     /\ Cardinality(MemoLines(lines, 1, Len(lines))) = 1
     /\ lines[Only(MemoLines(lines, 1, Len(lines)))] = "memoc")
    => repaired = Exchanged(lines, Only(NameLines(lines, 1, Len(lines))),
                                   Only(MemoLines(lines, 1, Len(lines))))

\* Nothing but blank lines lies between lines n and m, n before m.
OnlyBlanksBetween(kinds, n, m) ==
    n < m /\ \A k \in (n + 1)..(m - 1) : kinds[k] = "blank"

\* What does hold of C5's records: the exchange as C5 states it when the
\* MEMO line follows the NAME line with nothing but white space between
\* them, and no change otherwise.
ConfirmationStaysWhenMemoFollowsName ==
    (/\ repaired # None
     /\ OneRecord(lines)
     /\ Cardinality(NameLines(lines, 1, Len(lines))) = 1
     /\ Cardinality(MemoLines(lines, 1, Len(lines))) = 1)
    => LET n == Only(NameLines(lines, 1, Len(lines)))
           m == Only(MemoLines(lines, 1, Len(lines)))
       IN  repaired = IF OnlyBlanksBetween(lines, n, m)
                      THEN Exchanged(lines, n, m) ELSE to_repair

\* C6: repair exchanges the NAME and MEMO values of every record that has
\* both lines, wherever the two stand in the record.
C6_ExchangeWhereverPlaced ==
    (/\ repaired # None
     /\ OneRecord(lines)
     /\ Cardinality(NameLines(lines, 1, Len(lines))) = 1
     /\ Cardinality(MemoLines(lines, 1, Len(lines))) = 1)
    => repaired = Exchanged(lines, Only(NameLines(lines, 1, Len(lines))),
                                   Only(MemoLines(lines, 1, Len(lines))))

\* C7: a payload none of whose records has both a NAME and a MEMO line
\* comes back from repair as it went in.
C7_NoEligibleRecordNoChange ==
    (/\ repaired # None
     /\ WellNested(lines)
     /\ \A r \in Records(lines) : ~HasBoth(lines, r))
    => repaired = to_repair

\* What does hold of C7's payloads: when the payload is records only, one
\* right after the other, no change.
NoEligibleRecordNoChangeWhenAdjacent ==
    (/\ repaired # None
     /\ AdjacentRecords(lines)
     /\ \A r \in Records(lines) : ~HasBoth(lines, r))
    => repaired = to_repair

\* Two records, one right after the other: the first has NAME lines and no
\* MEMO line, the second a NAME line and then a MEMO line.
NameOnlyThenBoth(kinds, r1, r2) ==
    /\ r1 \in Records(kinds)
    /\ r2 \in Records(kinds)
    /\ r2[1] = r1[2] + 1
    /\ NameLines(kinds, r1[1], r1[2]) # {}
    /\ MemoLines(kinds, r1[1], r1[2]) = {}
    /\ r2[2] = r2[1] + 3
    /\ IsName(kinds[r2[1] + 1])
    /\ IsMemo(kinds[r2[1] + 2])

\* C8: in a payload of adjacent records the repair of one record changes
\* no other: the result is each record repaired alone; and where a record
\* with only a NAME is followed by a record with both, the first is left as
\* it was and the second exchanges its own NAME and MEMO values.
C8_RecordsAreRepairedApart ==
    (repaired # None /\ AdjacentRecords(lines)) =>
       /\ repaired = RepairedApart(lines, 1)
       /\ \A r1, r2 \in Records(lines) :
             NameOnlyThenBoth(lines, r1, r2) =>
                /\ \A k \in r1[1]..r1[2] :
                      SplitLines(repaired)[k] = LineText(lines[k], k)
                /\ SplitLines(repaired)[r2[1] + 1] =
                      ExchangedLine(lines, r2[1] + 1, r2[1] + 1, r2[1] + 2)
                /\ SplitLines(repaired)[r2[1] + 2] =
                      ExchangedLine(lines, r2[1] + 2, r2[1] + 1, r2[1] + 2)

\* C8's case: the record with only a NAME, then the record with both,
\* repaired.
C8_Witness ==
    /\ repaired # None
    /\ lines = <<"open", "name", "close", "open", "name", "memo", "close">>
    /\ repaired # to_repair

\* What a MalformedRecord error would be, were repair to raise one.
MalformedRecord == <<"MalformedRecord">>

\* C12: on a payload whose record markers are not balanced (an open with
\* no close after it, an open before the last record is closed, a close
\* with no open) repair fails with MalformedRecord and returns no text.
C12_UnbalancedPayloadIsAnError ==
    (repaired # None /\ ~WellNested(lines)) => repaired = MalformedRecord

\* The NAME and MEMO values of the record carry no confirmation annotation.
NoAnnotation(kinds) ==
    \A k \in 1..Len(kinds) : kinds[k] \notin {"memoc", "namec"}

\* C13, as claimed: on one well-formed record with a NAME and a MEMO
\* whose MEMO values carry no confirmation annotation, repair applied
\* twice gives the record back, whatever the NAME value.
C13_RepairTwiceAnyName ==
    (/\ repaired2 # None
     /\ OneRecord(lines)
     /\ NameLines(lines, 1, Len(lines)) # {}
     /\ MemoLines(lines, 1, Len(lines)) # {}
     /\ \A k \in 1..Len(lines) : lines[k] # "memoc")
    => repaired2 = to_repair

\* C13, amended: on one well-formed record with a NAME and a MEMO none of
\* whose NAME and MEMO values ends in a confirmation annotation, repair
\* applied twice gives the record back.
C13_RepairTwiceNoAnnotation ==
    (/\ repaired2 # None
     /\ OneRecord(lines)
     /\ NameLines(lines, 1, Len(lines)) # {}
     /\ MemoLines(lines, 1, Len(lines)) # {}
     /\ NoAnnotation(lines))
    => repaired2 = to_repair

\* C13's case: a record whose values repair has exchanged, and exchanged
\* back.
C13_Witness ==
    /\ repaired2 # None
    /\ lines = <<"open", "other", "lname", "memo", "other", "close">>
    /\ repaired # to_repair
    /\ repaired2 = to_repair

\* str begins with pre.
StartsWith(str, pre) ==
    Len(pre) <= Len(str) /\ SubSeq(str, 1, Len(pre)) = pre

\* The lines out are the lines of the payload, but for the values of its
\* NAME and MEMO lines.
SameButValues(kinds, out) ==
    /\ Len(out) = Len(kinds)
    /\ \A k \in 1..Len(kinds) :
          IF IsName(kinds[k]) \/ IsMemo(kinds[k])
          THEN StartsWith(out[k], LineHead(kinds[k]))
          ELSE out[k] = LineText(kinds[k], k)

\* C14: repair keeps the number of lines and of characters; a line that is
\* neither a NAME nor a MEMO line is the same line at the same place in
\* the result; a NAME or MEMO line keeps its leading white space and tag.
C14_OnlyNameAndMemoValuesChange ==
    repaired # None =>
       /\ Len(repaired) = Len(to_repair)
       /\ lines # <<>> => SameButValues(lines, SplitLines(repaired))

\* C14's case: a record with other sub-fields, a blank line and an
\* annotated MEMO value, its values exchanged.
C14_Witness ==
    /\ repaired # None
    /\ lines = <<"open", "other", "lname", "blank", "memoc", "close">>
    /\ repaired # to_repair

\* Line k lies outside every record: the marker nearest before it closes
\* a record, and a record is opened and closed after it.
OutsideRecords(kinds, k) ==
    /\ MarkerBefore(kinds, k) # 0
    /\ kinds[MarkerBefore(kinds, k)] = "close"
    /\ \E r \in Records(kinds) : k < r[1]

\* C15: a NAME line followed by a MEMO line outside every record, with a
\* record after them, is not changed by repair.
C15_LinesOutsideRecordsUnchanged ==
    (repaired # None /\ WellNested(lines)) =>
       \A k \in 1..(Len(lines) - 1) :
          (/\ IsName(lines[k]) /\ IsMemo(lines[k + 1])
           /\ OutsideRecords(lines, k) /\ OutsideRecords(lines, k + 1))
          => /\ SplitLines(repaired)[k] = LineText(lines[k], k)
             /\ SplitLines(repaired)[k + 1] = LineText(lines[k + 1], k + 1)

(***************************************************************************)
(* split_input applied to a document, and again to its own result.         *)
(***************************************************************************)

InitSplit ==
    /\ text \in Documents
    /\ parts = <<>>
    /\ parts2 = <<>>
    /\ NoRepair /\ NoMain /\ NoCodec

Split ==
    /\ pc = "off"
    /\ parts = <<>>
    /\ parts' = split_input(text)
    /\ UNCHANGED <<text, parts2, repairVars, mainVars, codecVars>>

SplitAgain ==
    /\ pc = "off"
    /\ parts # <<>>
    /\ parts[1] # None
    /\ parts2 = <<>>
    /\ parts2' = split_input(parts[1] \o parts[2] \o parts[3])
    /\ UNCHANGED <<text, parts, repairVars, mainVars, codecVars>>

NextSplit == Split \/ SplitAgain

SpecSplit == InitSplit /\ [][NextSplit]_vars

\* C9: a split that succeeds loses nothing (prefix, payload and suffix put
\* together are the text) and splitting them put together gives the same
\* three parts; a split that fails gives (None, None, None), never a part
\* of a split.
C9_SplitLosesNothing ==
    /\ parts # <<>> =>
          \/ parts = <<None, None, None>>
          \/ /\ \A k \in 1..3 : parts[k] # None
             /\ parts[1] \o parts[2] \o parts[3] = text
    /\ parts2 # <<>> => parts2 = parts

\* C9's case: a text with something before <OFX> and something inside the
\* container, split twice.
C9_Witness ==
    /\ parts2 # <<>>
    /\ Len(parts[1]) > Len(OFX_OPEN)
    /\ parts[2] # <<>>

\* The first <OFX> of str, in any letter case; 0 when there is none.
FirstOpen(str) == LeastOrZero({p \in 1..Len(str) : LitAt(str, p, OFX_OPEN)})
\* The first </OFX> of str at or after position a; 0 when there is none.
FirstCloseFrom(str, a) ==
    LeastOrZero({q \in a..Len(str) : LitAt(str, q, OFX_CLOSE)})

\* C10: every text with an <OFX> and a </OFX> after it is split: the prefix
\* runs to the end of the <OFX>, whatever comes before it, the suffix
\* begins at the first </OFX> after it, the payload is what lies between.
C10_SplitsWhateverPrecedesOpen ==
    (/\ parts # <<>>
     /\ FirstOpen(text) # 0
     /\ FirstCloseFrom(text, FirstOpen(text) + Len(OFX_OPEN)) # 0)
    => parts = <<Cut(text, 1, FirstOpen(text) + Len(OFX_OPEN)),
                 Cut(text, FirstOpen(text) + Len(OFX_OPEN),
                     FirstCloseFrom(text, FirstOpen(text) + Len(OFX_OPEN))),
                 Cut(text, FirstCloseFrom(text, FirstOpen(text) + Len(OFX_OPEN)),
                     Len(text) + 1)>>

\* What does hold of C10's texts: the split is as C10 states it when no
\* "<" comes before the <OFX>, and fails otherwise.
SplitsWhenNoTagPrecedesOpen ==
    (/\ parts # <<>>
     /\ FirstOpen(text) # 0
     /\ FirstCloseFrom(text, FirstOpen(text) + Len(OFX_OPEN)) # 0)
    => IF \A j \in 1..(FirstOpen(text) - 1) : text[j] # "<"
       THEN parts = <<Cut(text, 1, FirstOpen(text) + Len(OFX_OPEN)),
                      Cut(text, FirstOpen(text) + Len(OFX_OPEN),
                          FirstCloseFrom(text, FirstOpen(text) + Len(OFX_OPEN))),
                      Cut(text, FirstCloseFrom(text, FirstOpen(text) + Len(OFX_OPEN)),
                          Len(text) + 1)>>
       ELSE parts = <<None, None, None>>

(***************************************************************************)
(* codec_name_from_ofx_headers applied to a header mapping.                *)
(***************************************************************************)

EncodingMenu == {"", "USASCII", "UNICODE", "UTF-8", "EBCDIC", "usascii"}
CharsetMenu == {"", "1252", "1251", "ISO-8859-1"}
HeaderKeys == {"ENCODING", "CHARSET", "VERSION"}

\* The header mappings: each key is absent or has one of its values.
HeaderMappings ==
    {[k \in K |-> CASE k = "ENCODING" -> e
                   [] k = "CHARSET" -> c
                   [] OTHER -> "102"] :
       e \in EncodingMenu, c \in CharsetMenu, K \in SUBSET HeaderKeys}

InitCodec ==
    /\ headers \in HeaderMappings
    /\ codec_name = None
    /\ NoRepair /\ NoSplit /\ NoMain

\* OFXRepairer.__init__: self.codec_name = codec_name_from_ofx_headers(...)
Lookup ==
    /\ pc = "off"
    /\ codec_name = None
    /\ codec_name' = codec_name_from_ofx_headers(headers)
    /\ UNCHANGED <<headers, repairVars, splitVars, mainVars>>

NextCodec == Lookup

SpecCodec == InitCodec /\ [][NextCodec]_vars

\* C11: the codec is 'ascii' when ENCODING is absent or empty, the code
\* page named by CHARSET (1252 when CHARSET is absent) when ENCODING is
\* USASCII, 'utf-8' when ENCODING is UNICODE or UTF-8, and for every other
\* ENCODING the lookup raises and gives no codec.
C11_CodecFromHeaders ==
    codec_name # None =>
       codec_name =
          IF "ENCODING" \notin DOMAIN headers THEN <<"ascii">>
          ELSE CASE headers["ENCODING"] = "" -> <<"ascii">>
                 [] headers["ENCODING"] = "USASCII" ->
                       IF "CHARSET" \in DOMAIN headers
                       THEN <<"cp", headers["CHARSET"]>>
                       ELSE <<"cp", "1252">>
                 [] headers["ENCODING"] \in {"UNICODE", "UTF-8"} -> <<"utf-8">>
                 [] OTHER -> <<"AssertionError">>

\* C11's case: USASCII with a CHARSET other than 1252, looked up.
C11_Witness ==
    /\ codec_name # None
    /\ "ENCODING" \in DOMAIN headers /\ headers["ENCODING"] = "USASCII"
    /\ "CHARSET" \in DOMAIN headers /\ headers["CHARSET"] = "1251"
    /\ codec_name = <<"cp", "1251">>

(***************************************************************************)
(* main: the loop over args.paths.                                         *)
(***************************************************************************)

MaxPaths == 3

PathA == <<"a",".","o","f","x">>
PathB == <<"b",".","Q","F","X">>
PathC == <<"c",".","d","a","t">>
PathMenu == {PathA, PathB, PathC}
AllPaths == PathMenu \cup {generate_out_path(p) : p \in PathMenu}

NoHeaders == [k \in {} |-> ""]
Headers1252 == [k \in {"ENCODING", "CHARSET"} |->
                  IF k = "ENCODING" THEN "USASCII" ELSE "1252"]
HeadersEbcdic == [k \in {"ENCODING"} |-> "EBCDIC"]

\* A statement with one transaction, inside the container markers.
GoodText ==
    <<"h", "\n">> \o OFX_OPEN \o LF
      \o Text(<<"open", "name", "memoc", "close">>) \o LF \o OFX_CLOSE \o LF

GoodFile == [exists |-> TRUE, headers |-> Headers1252, text |-> GoodText]
\* The same transaction with no container markers around it.
NotOfxFile == [exists |-> TRUE, headers |-> Headers1252,
               text |-> Text(<<"open", "name", "memo", "close">>) \o LF]
\* A header that declares an encoding the program does not know.
BadEncodingFile == [exists |-> TRUE, headers |-> HeadersEbcdic, text |-> GoodText]
\* What an earlier run, or the user, left at an output path.
OldFile == [exists |-> TRUE, headers |-> NoHeaders, text |-> <<"o", "l", "d">>]

InputFiles == {NoFile, GoodFile, NotOfxFile, BadEncodingFile}

\* The file systems main starts on: each input file is missing or one of
\* the files above, each output path is free or taken.
FileSystems ==
    {[p \in AllPaths |->
        CASE p = PathA -> a
          [] p = PathB -> b
          [] p = PathC -> GoodFile
          [] p = generate_out_path(PathA) -> oa
          [] p = generate_out_path(PathB) -> ob
          [] OTHER -> NoFile] :
       a \in InputFiles, b \in InputFiles,
       oa \in {NoFile, OldFile}, ob \in {NoFile, OldFile}}

Running == <<>>

InitMain ==
    /\ paths \in SeqsUpTo(PathMenu, MaxPaths) \ {<<>>}
    /\ idx = 1
    /\ pc = "loop"
    /\ fs \in FileSystems
    /\ report = <<>>
    /\ exit_code = Running
    /\ NoRepair /\ NoSplit /\ NoCodec

\* The path is not one main works on: it says so and goes on.
Skip ==
    /\ pc = "loop"
    /\ idx <= Len(paths)
    /\ ~Recognised(paths[idx])
    /\ report' = Append(report, <<idx, "skipped">>)
    /\ idx' = idx + 1
    /\ UNCHANGED <<paths, pc, fs, exit_code, repairVars, splitVars, codecVars>>

\* open_in_out_files raises IOError or OSError: main prints SORRY and
\* leaves the loop by its break statement, then returns 0.
OpenFails ==
    /\ pc = "loop"
    /\ idx <= Len(paths)
    /\ Recognised(paths[idx])
    /\ LET r == open_in_out_files(fs, paths[idx]) IN
         /\ r.errno # ""
         /\ fs' = r.fs
         /\ report' = Append(report, <<idx, r.errno>>)
    /\ pc' = "done"
    /\ exit_code' = <<0>>
    /\ UNCHANGED <<paths, idx, repairVars, splitVars, codecVars>>

\* open_in_out_files returns the two open files.
Opened ==
    /\ pc = "loop"
    /\ idx <= Len(paths)
    /\ Recognised(paths[idx])
    /\ LET r == open_in_out_files(fs, paths[idx]) IN
         /\ r.errno = ""
         /\ fs' = r.fs
    /\ pc' = "opened"
    /\ UNCHANGED <<paths, idx, report, exit_code, repairVars, splitVars, codecVars>>

\* OFXRepairer(in_file, out_file) or r.write() raises: the exception
\* reaches main's except Exception, which returns 2.
RepairFails ==
    /\ pc = "opened"
    /\ LET w == write(fs[paths[idx]]) IN
         /\ w.raised # ""
         /\ report' = Append(report, <<idx, w.raised>>)
    /\ pc' = "done"
    /\ exit_code' = <<2>>
    /\ UNCHANGED <<paths, idx, fs, repairVars, splitVars, codecVars>>

\* r.write() returns: the repaired text is in the output file, main says
\* so, closes both files and goes on.
RepairDone ==
    /\ pc = "opened"
    /\ LET w == write(fs[paths[idx]]) IN
         /\ w.raised = ""
         /\ fs' = [fs EXCEPT ![generate_out_path(paths[idx])] =
                      [exists |-> TRUE, headers |-> fs[paths[idx]].headers,
                       text |-> w.written]]
    /\ report' = Append(report, <<idx, "repaired">>)
    /\ idx' = idx + 1
    /\ pc' = "loop"
    /\ UNCHANGED <<paths, exit_code, repairVars, splitVars, codecVars>>

\* The loop is over: return 0.
Return ==
    /\ pc = "loop"
    /\ idx > Len(paths)
    /\ pc' = "done"
    /\ exit_code' = <<0>>
    /\ UNCHANGED <<paths, idx, fs, report, repairVars, splitVars, codecVars>>

Next == Skip \/ OpenFails \/ Opened \/ RepairFails \/ RepairDone \/ Return

Init == InitMain

Spec == Init /\ [][Next]_vars

\* The paths open_in_out_files has been called for.
Attempted(j) ==
    \E k \in 1..Len(report) : report[k][1] = j /\ report[k][2] # "skipped"

LaterPathsAttempted(i) ==
    \A j \in (i + 1)..Len(paths) : Recognised(paths[j]) => Attempted(j)

\* C1: when opening the files of one path fails (no input file, or the
\* output path exists), every later recognised path of the list has had its
\* own attempt by the time main returns.
C1_OpenFailureDoesNotStopLaterPaths ==
    pc = "done" =>
       \A k \in 1..Len(report) :
          report[k][2] \in {"ENOENT", "EEXIST"} => LaterPathsAttempted(report[k][1])

\* C2: a file whose text has no <OFX> ... </OFX> pair ends in the
\* not-recognised error (CLIError) and no file exists at its output path
\* afterwards.
C2_NoOutputFileForUnrecognisedText ==
    \A k \in 1..Len(report) :
       report[k][2] = "CLIError" =>
          ~fs[generate_out_path(paths[report[k][1]])].exists

\* C3: an error raised while repairing one file (text not recognised as
\* OFX, unsupported ENCODING) is fatal to that file only: the later paths
\* are still processed and main returns 0.
C3_RepairErrorIsFatalToThatFileOnly ==
    pc = "done" =>
       \A k \in 1..Len(report) :
          report[k][2] \in {"CLIError", "AssertionError"} =>
             exit_code = <<0>> /\ LaterPathsAttempted(report[k][1])

\* main stands before open_in_out_files(paths[idx]) and the output path
\* of paths[idx] holds a file.
OutputExistsAtCall ==
    /\ pc = "loop"
    /\ idx <= Len(paths)
    /\ Recognised(paths[idx])
    /\ fs[generate_out_path(paths[idx])].exists

\* C4, as claimed: whenever a file exists at the generated output path,
\* open_in_out_files fails with EEXIST, and no file is changed: not the
\* existing output, not the input.
C4_ExistingOutputAlwaysEEXIST ==
    [][OutputExistsAtCall =>
         /\ fs' = fs
         /\ report' = Append(report, <<idx, "EEXIST">>)]_vars

\* C4, amended: whenever a file exists at the generated output path,
\* open_in_out_files fails and no file is changed (neither the existing
\* output nor the input); it fails with EEXIST when the input file can be
\* opened and with ENOENT, from opening the input, when it cannot.
C4_ExistingOutputUntouched ==
    [][OutputExistsAtCall =>
         /\ fs' = fs
         /\ report' = Append(report,
               <<idx, IF fs[paths[idx]].exists THEN "EEXIST" ELSE "ENOENT">>)]_vars

\* C4's case: the call has failed with EEXIST over an existing output file.
C4_Witness ==
    /\ report # <<>>
    /\ report[Len(report)][2] = "EEXIST"
    /\ fs[generate_out_path(paths[report[Len(report)][1]])] = OldFile
=============================================================================
